---- MODULE Spec2Model ----
(***************************************************************************)
(* Model of brainprint/asymmetry.py (compute_asymmetry) and                *)
(* brainprint/surfaces.py (create_*_surface, create_*_surfaces,            *)
(* create_surfaces).                                                       *)
(*                                                                         *)
(* Floating point values are the strings "0.0", "1.0", "2.0" (finite),     *)
(* "nan", "inf" and "-inf".  The external shapedna.compute_distance is     *)
(* uninterpreted: its result is the term made of its three arguments.      *)
(***************************************************************************)
EXTENDS Naturals, Sequences, FiniteSets, TLC

VARIABLES
    eigenvalues,      \* argument of compute_asymmetry: name -> spectrum
    distance,         \* argument of compute_asymmetry: the metric
    skip_cortex,      \* argument of compute_asymmetry / create_surfaces
    skip_cerebellum,  \* argument of compute_asymmetry / create_surfaces
    structures,       \* compute_asymmetry: the list the loop iterates
    idx,              \* compute_asymmetry: position of the loop in structures
    distances,        \* compute_asymmetry: the dict under construction
    invoked,          \* the calls of shapedna.compute_distance, in order
    pc,               \* compute_asymmetry: "idle", "loop", "returned", "raised"
    result,           \* what the last finished call returned
    prev,             \* the finished call a repeated call is compared with
    calls,            \* the calls of create_aseg_surface / create_cereb_surface
    fs,               \* the files: path -> who wrote it, with which tool
    io,               \* every read and write of a file by an external command
    batch             \* the running create_*_surfaces / create_surfaces call

asymVars == <<eigenvalues, distance, skip_cortex, skip_cerebellum, structures,
              idx, distances, invoked, pc, result, prev>>

surfVars == <<calls, fs, io, batch>>

vars == <<asymVars, surfVars>>

(***************************************************************************)
(* Bounds of the model.                                                    *)
(***************************************************************************)
MaxLen == 3

(***************************************************************************)
(* asymmetry.py: the pair catalogues.                                      *)
(***************************************************************************)
structures_left_right ==
    << <<"Left-Striatum", "Right-Striatum">>,
       <<"Left-Lateral-Ventricle", "Right-Lateral-Ventricle">>,
       <<"Left-Cerebellum-White-Matter", "Right-Cerebellum-White-Matter">>,
       <<"Left-Cerebellum-Cortex", "Right-Cerebellum-Cortex">>,
       <<"Left-Thalamus-Proper", "Right-Thalamus-Proper">>,
       <<"Left-Caudate", "Right-Caudate">>,
       <<"Left-Putamen", "Right-Putamen">>,
       <<"Left-Pallidum", "Right-Pallidum">>,
       <<"Left-Hippocampus", "Right-Hippocampus">>,
       <<"Left-Amygdala", "Right-Amygdala">>,
       <<"Left-Accumbens-area", "Right-Accumbens-area">>,
       <<"Left-VentralDC", "Right-VentralDC">> >>

structures_left_right_cerebellum ==
    << <<"Cbm_Left_I_IV", "Cbm_Right_I_IV">>,
       <<"Cbm_Left_V", "Cbm_Right_V">>,
       <<"Cbm_Left_VI", "Cbm_Right_VI">>,
       <<"Cbm_Left_CrusI", "Cbm_Right_CrusI">>,
       <<"Cbm_Left_CrusII", "Cbm_Right_CrusII">>,
       <<"Cbm_Left_VIIb", "Cbm_Right_VIIb">>,
       <<"Cbm_Left_VIIIa", "Cbm_Right_VIIIa">>,
       <<"Cbm_Left_VIIIb", "Cbm_Right_VIIIb">>,
       <<"Cbm_Left_IX", "Cbm_Right_IX">>,
       <<"Cbm_Left_X", "Cbm_Right_X">> >>

cortex_2d_left_right ==
    << <<"lh-white-2d", "rh-white-2d">>,
       <<"lh-pial-2d", "rh-pial-2d">> >>

Range(s) == {s[i] : i \in 1..Len(s)}

AllPairs ==
    Range(structures_left_right) \cup Range(cortex_2d_left_right)
        \cup Range(structures_left_right_cerebellum)

LeftNames == {p[1] : p \in AllPairs}
RightNames == {p[2] : p \in AllPairs}
PairNames == LeftNames \cup RightNames

(***************************************************************************)
(* Values and the numpy predicate the code uses.                           *)
(***************************************************************************)
FiniteValues == {"0.0", "1.0", "2.0"}
Values == FiniteValues \cup {"nan", "inf", "-inf"}

\* np.isnan on one entry
isnan(x) == x = "nan"

\* np.isnan(a).all(): what the code does not do
AllNaNEntries(s) == \A i \in 1..Len(s) : isnan(s[i])

\* np.isnan(a).any()
AnyNaN(s) == \E i \in 1..Len(s) : isnan(s[i])

\* the slice [1:]: what the code does not do
TrimOne(s) == SubSeq(s, 2, Len(s))

\* the slice [2:]
Trim(s) == SubSeq(s, 3, Len(s))

\* f"{left_label}_{right_label}"
Key(left_label, right_label) == left_label \o "_" \o right_label

\* np.nan and the value of shapedna.compute_distance(left, right, dist=d)
NaNValue == [kind |-> "nan", left |-> <<>>, right |-> <<>>, dist |-> ""]
DistanceValue(l, r, d) == [kind |-> "distance", left |-> l, right |-> r, dist |-> d]

EmptyDict == [k \in {} |-> NaNValue]
Put(dict, k, v) == [x \in DOMAIN dict \cup {k} |-> IF x = k THEN v ELSE dict[x]]

None == [kind |-> "none"]
Returned(d) == [kind |-> "dict", value |-> d]

(***************************************************************************)
(* compute_asymmetry, lines 41-84: the local catalogue is built afresh on  *)
(* every call, `structures` aliases it, and += appends the selected        *)
(* groups in place (cortex first, then cerebellum).                        *)
(***************************************************************************)
\* a catalogue shared by all calls, which += would extend for good
SharedCatalogue(old) == IF old = <<>> THEN structures_left_right ELSE old

LocalCatalogue(old) == structures_left_right

SelectStructures(old, sc, sce) ==
    LET base == LocalCatalogue(old)
        withCortex == IF ~sc THEN base \o cortex_2d_left_right ELSE base
    IN  IF ~sce THEN withCortex \o structures_left_right_cerebellum ELSE withCortex

Metrics == {"euc", "mah"}

\* def compute_asymmetry(...): entry up to `distances = dict()`
Enter(d, sc, sce) ==
    /\ distance' = d
    /\ skip_cortex' = sc
    /\ skip_cerebellum' = sce
    /\ structures' = SelectStructures(structures, sc, sce)
    /\ idx' = 1
    /\ distances' = EmptyDict
    /\ invoked' = <<>>
    /\ result' = None
    /\ pc' = "loop"
    /\ UNCHANGED surfVars

\* a call of compute_asymmetry, the first one or one after a finished call
Call(d, sc, sce) ==
    /\ pc \in {"idle", "returned", "raised"}
    /\ Enter(d, sc, sce)
    /\ UNCHANGED <<eigenvalues, prev>>

\* the spectra mapping ev with the entries at indices 0 and 1 overwritten by v
Reheaded(ev, v) ==
    [n \in DOMAIN ev |-> [i \in 1..Len(ev[n]) |-> IF i <= 2 THEN v ELSE ev[n][i]]]

Finished ==
    [kind |-> "call", eigenvalues |-> eigenvalues, distance |-> distance,
     skip_cortex |-> skip_cortex, skip_cerebellum |-> skip_cerebellum,
     pc |-> pc, result |-> result, invoked |-> invoked]

\* the first call of a caller that will call again
FirstCall(d, sc, sce) ==
    /\ pc = "idle"
    /\ Enter(d, sc, sce)
    /\ UNCHANGED <<eigenvalues, prev>>

\* a further call, on the same spectra or on spectra with other first two
\* entries; the first finished call is kept for comparison
CallAgain(d, sc, sce, ev) ==
    /\ pc \in {"returned", "raised"}
    /\ prev' = IF prev = None THEN Finished ELSE prev
    /\ eigenvalues' = ev
    /\ Enter(d, sc, sce)

left_label == structures[idx][1]
right_label == structures[idx][2]
InLoop == pc = "loop" /\ idx <= Len(structures)

\* eigenvalues.get(label, []): what the code does not do
SubscriptOrDefault(ev, label) ==
    IF label \in DOMAIN ev THEN [ok |-> TRUE, value |-> ev[label]]
    ELSE [ok |-> TRUE, value |-> <<>>]

\* eigenvalues[label]: the entry, or KeyError (ok = FALSE) without one
Subscript(ev, label) ==
    IF label \in DOMAIN ev THEN [ok |-> TRUE, value |-> ev[label]]
    ELSE [ok |-> FALSE, value |-> <<>>]

LookupsSucceed ==
    Subscript(eigenvalues, left_label).ok /\ Subscript(eigenvalues, right_label).ok

\* eigenvalues[left_label] or eigenvalues[right_label] raises KeyError
LookupFails ==
    /\ InLoop
    /\ ~LookupsSucceed
    /\ pc' = "raised"
    /\ UNCHANGED <<eigenvalues, distance, skip_cortex, skip_cerebellum,
                   structures, idx, distances, invoked, result, prev>>
    /\ UNCHANGED surfVars

left_eigenvalues == Trim(Subscript(eigenvalues, left_label).value)
right_eigenvalues == Trim(Subscript(eigenvalues, right_label).value)

\* a check of the left side only: what the code does not do
has_nan_left_only == AnyNaN(left_eigenvalues)

has_nan == AnyNaN(left_eigenvalues) \/ AnyNaN(right_eigenvalues)

\* the `if has_nan:` branch
RecordNaN ==
    /\ InLoop
    /\ LookupsSucceed
    /\ has_nan
    /\ distances' = Put(distances, Key(left_label, right_label), NaNValue)
    /\ idx' = idx + 1
    /\ UNCHANGED <<eigenvalues, distance, skip_cortex, skip_cerebellum,
                   structures, invoked, pc, result, prev>>
    /\ UNCHANGED surfVars

\* the `else:` branch
ComputeDistance ==
    /\ InLoop
    /\ LookupsSucceed
    /\ ~has_nan
    \* the arguments of the call, and the key it is made for
    /\ invoked' = Append(invoked,
                    [left |-> left_eigenvalues, right |-> right_eigenvalues,
                     dist |-> distance, key |-> Key(left_label, right_label)])
    /\ distances' = Put(distances, Key(left_label, right_label),
                        DistanceValue(left_eigenvalues, right_eigenvalues, distance))
    /\ idx' = idx + 1
    /\ UNCHANGED <<eigenvalues, distance, skip_cortex, skip_cerebellum,
                   structures, pc, result, prev>>
    /\ UNCHANGED surfVars

\* return distances
Return ==
    /\ pc = "loop"
    /\ idx > Len(structures)
    /\ result' = Returned(distances)
    /\ pc' = "returned"
    /\ UNCHANGED <<eigenvalues, distance, skip_cortex, skip_cerebellum,
                   structures, idx, distances, invoked, prev>>
    /\ UNCHANGED surfVars

(***************************************************************************)
(* surfaces.py: the catalogues, in the order of the dict literals.         *)
(***************************************************************************)
aseg_labels ==
    << <<"CorpusCallosum", <<"251", "252", "253", "254", "255">> >>,
       <<"Cerebellum", <<"7", "8", "16", "46", "47">> >>,
       <<"Ventricles", <<"4", "5", "14", "24", "31", "43", "44", "63">> >>,
       <<"3rd-Ventricle", <<"14", "24">> >>,
       <<"4th-Ventricle", <<"15">> >>,
       <<"Brain-Stem", <<"16">> >>,
       <<"Left-Striatum", <<"11", "12", "26">> >>,
       <<"Left-Lateral-Ventricle", <<"4", "5", "31">> >>,
       <<"Left-Cerebellum-White-Matter", <<"7">> >>,
       <<"Left-Cerebellum-Cortex", <<"8">> >>,
       <<"Left-Thalamus-Proper", <<"10">> >>,
       <<"Left-Caudate", <<"11">> >>,
       <<"Left-Putamen", <<"12">> >>,
       <<"Left-Pallidum", <<"13">> >>,
       <<"Left-Hippocampus", <<"17">> >>,
       <<"Left-Amygdala", <<"18">> >>,
       <<"Left-Accumbens-area", <<"26">> >>,
       <<"Left-VentralDC", <<"28">> >>,
       <<"Right-Striatum", <<"50", "51", "58">> >>,
       <<"Right-Lateral-Ventricle", <<"43", "44", "63">> >>,
       <<"Right-Cerebellum-White-Matter", <<"46">> >>,
       <<"Right-Cerebellum-Cortex", <<"47">> >>,
       <<"Right-Thalamus-Proper", <<"49">> >>,
       <<"Right-Caudate", <<"50">> >>,
       <<"Right-Putamen", <<"51">> >>,
       <<"Right-Pallidum", <<"52">> >>,
       <<"Right-Hippocampus", <<"53">> >>,
       <<"Right-Amygdala", <<"54">> >>,
       <<"Right-Accumbens-area", <<"58">> >>,
       <<"Right-VentralDC", <<"60">> >> >>

cereb_labels ==
    << <<"Cbm_Left_I_IV", <<"601">> >>,
       <<"Cbm_Right_I_IV", <<"602">> >>,
       <<"Cbm_Left_V", <<"603">> >>,
       <<"Cbm_Right_V", <<"604">> >>,
       <<"Cbm_Left_VI", <<"605">> >>,
       <<"Cbm_Vermis_VI", <<"606">> >>,
       <<"Cbm_Right_VI", <<"607">> >>,
       <<"Cbm_Left_CrusI", <<"608">> >>,
       <<"Cbm_Right_CrusI", <<"610">> >>,
       <<"Cbm_Left_CrusII", <<"611">> >>,
       <<"Cbm_Right_CrusII", <<"613">> >>,
       <<"Cbm_Left_VIIb", <<"614">> >>,
       <<"Cbm_Right_VIIb", <<"616">> >>,
       <<"Cbm_Left_VIIIa", <<"617">> >>,
       <<"Cbm_Right_VIIIa", <<"619">> >>,
       <<"Cbm_Left_VIIIb", <<"620">> >>,
       <<"Cbm_Right_VIIIb", <<"622">> >>,
       <<"Cbm_Left_IX", <<"623">> >>,
       <<"Cbm_Vermis_IX", <<"624">> >>,
       <<"Cbm_Right_IX", <<"625">> >>,
       <<"Cbm_Left_X", <<"626">> >>,
       <<"Cbm_Vermis_X", <<"627">> >>,
       <<"Cbm_Right_X", <<"628">> >>,
       <<"Cbm_Vermis_VII", <<"630">> >>,
       <<"Cbm_Vermis_VIII", <<"631">> >>,
       <<"Cbm_Vermis", <<"631", "630", "627", "624", "606">> >> >>

cortical_labels ==
    << <<"lh-white-2d", "lh.white">>,
       <<"rh-white-2d", "rh.white">>,
       <<"lh-pial-2d", "lh.pial">>,
       <<"rh-pial-2d", "rh.pial">> >>

Catalogue(stage) ==
    IF stage = "aseg" THEN aseg_labels
    ELSE IF stage = "cereb" THEN cereb_labels
    ELSE cortical_labels

(***************************************************************************)
(* Paths.  subject_dir / x and destination / x.                            *)
(***************************************************************************)
SubjectDir(rel) == "subject_dir/" \o rel
Destination(rel) == "destination/" \o rel

\* sep.join(items)
RECURSIVE Join(_, _)
Join(items, sep) ==
    IF Len(items) = 0 THEN ""
    ELSE IF Len(items) = 1 THEN items[1]
    ELSE items[1] \o sep \o Join(Tail(items), sep)

\* uuid.uuid4(): a token no call before has drawn; drawn is the number of
\* tokens drawn so far
uuid4(drawn) == drawn + 1

\* a temporary name made of the label codes: what the code does not do
TempNameOfCodes(kind, uid, indices) == "temp/" \o kind \o "." \o Join(indices, "_")

\* "temp/aseg.{uid}" and "temp/cereb.{uid}"
TempName(kind, uid, indices) == "temp/" \o kind \o "." \o ToString(uid)

\* a final name made of the first label code only: what the code does not do
FinalNameOfFirstCode(kind, indices) ==
    "surfaces/" \o kind \o ".final." \o indices[1] \o ".vtk"

\* "surfaces/aseg.final.{indices}.vtk" and "surfaces/cereb.final.{indices}.vtk"
FinalName(kind, indices) ==
    "surfaces/" \o kind \o ".final." \o Join(indices, "_") \o ".vtk"

SegmentationPath(kind) ==
    IF kind = "aseg" THEN SubjectDir("mri/aseg.mgz")
    ELSE SubjectDir("mri/cerebellum.CerebNet.nii.gz")

norm_path == SubjectDir("mri/norm.mgz")
label_value == "1"

indices_mask(c) == Destination(c.temp_name \o ".mgz")
surface_path(c) == Destination(c.temp_name \o ".surf")
conversion_destination(c) == Destination(FinalName(c.kind, c.indices))

NoPath == ""

\* the locals of a call of create_aseg_surface / create_cereb_surface that
\* has drawn its token and is about to run mri_binarize
NewCall(kind, indices, drawn) ==
    [kind |-> kind, indices |-> indices,
     temp_name |-> TempName(kind, uuid4(drawn), indices),
     pc |-> "binarize", log |-> <<>>, ret |-> NoPath]

(***************************************************************************)
(* The four external commands of one call, with their file arguments.      *)
(***************************************************************************)
binarize_command(c) ==
    [tool |-> "mri_binarize",
     args |-> <<SegmentationPath(c.kind), Join(c.indices, " "), indices_mask(c)>>]

pretess_command(c) ==
    [tool |-> "mri_pretess",
     args |-> <<indices_mask(c), label_value, norm_path, indices_mask(c)>>]

extraction_command(c) ==
    [tool |-> "mri_mc",
     args |-> <<indices_mask(c), label_value, surface_path(c)>>]

conversion_command(c) ==
    [tool |-> "mris_convert",
     args |-> <<surface_path(c), conversion_destination(c)>>]

\* run_shell_command raises when the command exits with a non-zero status
Raises(exit_ok) == ~exit_ok

\* the files a command reads and writes: <<role, path>>
Reads(cmd) ==
    IF cmd.tool = "mri_binarize" THEN {<<"input", cmd.args[1]>>}
    ELSE IF cmd.tool = "mri_pretess"
         THEN {<<"mask", cmd.args[1]>>, <<"input", cmd.args[3]>>}
    ELSE IF cmd.tool = "mri_mc" THEN {<<"mask", cmd.args[1]>>}
    ELSE {<<"surface", cmd.args[1]>>}

Writes(cmd) ==
    IF cmd.tool = "mri_binarize" THEN <<"mask", cmd.args[3]>>
    ELSE IF cmd.tool = "mri_pretess" THEN <<"mask", cmd.args[4]>>
    ELSE IF cmd.tool = "mri_mc" THEN <<"surface", cmd.args[3]>>
    ELSE <<"final", cmd.args[2]>>

is_file(path) == path \in DOMAIN fs

WriteFile(path, i, tool) ==
    [p \in DOMAIN fs \cup {path} |->
        IF p = path THEN [writer |-> i, tool |-> tool] ELSE fs[p]]

ReadRecord(i, tool, f) ==
    [call |-> i, tool |-> tool, op |-> "read", role |-> f[1], path |-> f[2],
     owner |-> IF is_file(f[2]) THEN fs[f[2]].writer ELSE 0,
     made_by |-> IF is_file(f[2]) THEN fs[f[2]].tool ELSE "nothing"]

WriteRecord(i, tool, f) ==
    [call |-> i, tool |-> tool, op |-> "write", role |-> f[1], path |-> f[2],
     owner |-> IF is_file(f[2]) THEN fs[f[2]].writer ELSE i,
     made_by |-> tool]

\* run_shell_command(cmd) in call i: the command is issued; when it exits
\* with status 0 the call goes on at `next`, otherwise the call raises
RunShellCommand(i, cmd, exit_ok, next, ret) ==
    /\ io' = io \cup {ReadRecord(i, cmd.tool, f) : f \in Reads(cmd)}
                \cup (IF exit_ok THEN {WriteRecord(i, cmd.tool, Writes(cmd))} ELSE {})
    /\ fs' = IF exit_ok THEN WriteFile(Writes(cmd)[2], i, cmd.tool) ELSE fs
    /\ calls' = [calls EXCEPT
                    ![i].log = Append(@, [cmd |-> cmd, ok |-> exit_ok]),
                    ![i].pc = IF Raises(exit_ok) THEN "failed" ELSE next,
                    ![i].ret = IF Raises(exit_ok) THEN NoPath ELSE ret]

\* a call that never refines the mask: what the code does not do
AfterBinarizeNoRefine == "mc"

\* lines 99-103: after mri_binarize, mri_pretess iff norm.mgz is a file
AfterBinarize == IF is_file(norm_path) THEN "pretess" ELSE "mc"

Binarize(i, exit_ok) ==
    /\ calls[i].pc = "binarize"
    /\ RunShellCommand(i, binarize_command(calls[i]), exit_ok, AfterBinarize, NoPath)
    /\ UNCHANGED <<asymVars, batch>>

Pretess(i, exit_ok) ==
    /\ calls[i].pc = "pretess"
    /\ RunShellCommand(i, pretess_command(calls[i]), exit_ok, "mc", NoPath)
    /\ UNCHANGED <<asymVars, batch>>

MarchingCubes(i, exit_ok) ==
    /\ calls[i].pc = "mc"
    /\ RunShellCommand(i, extraction_command(calls[i]), exit_ok, "convert", NoPath)
    /\ UNCHANGED <<asymVars, batch>>

Convert(i, exit_ok) ==
    /\ calls[i].pc = "convert"
    /\ RunShellCommand(i, conversion_command(calls[i]), exit_ok, "done",
                       conversion_destination(calls[i]))
    /\ UNCHANGED <<asymVars, batch>>

(***************************************************************************)
(* create_aseg_surfaces, create_cereb_surfaces, create_cortical_surfaces   *)
(* and create_surfaces.                                                    *)
(***************************************************************************)
\* create_surfaces with the two flags swapped: what the code does not do
StagesSwapped(entry, sc, sce) ==
    IF entry = "create_aseg_surfaces" THEN <<"aseg">>
    ELSE IF entry = "create_cereb_surfaces" THEN <<"cereb">>
    ELSE <<"aseg">> \o (IF ~sc THEN <<"cereb">> ELSE <<>>)
                    \o (IF ~sce THEN <<"cortical">> ELSE <<>>)

\* the catalogues an entry point goes through, in order
Stages(entry, sc, sce) ==
    IF entry = "create_aseg_surfaces" THEN <<"aseg">>
    ELSE IF entry = "create_cereb_surfaces" THEN <<"cereb">>
    ELSE <<"aseg">> \o (IF ~sce THEN <<"cereb">> ELSE <<>>)
                    \o (IF ~sc THEN <<"cortical">> ELSE <<>>)

Entries == {"create_aseg_surfaces", "create_cereb_surfaces", "create_surfaces"}

NoBatch ==
    [entry |-> "", pc |-> "idle", skip_cortex |-> FALSE, skip_cerebellum |-> FALSE,
     stages |-> <<>>, sidx |-> 1, current |-> 0,
     partial |-> EmptyDict, surfaces |-> EmptyDict, ret |-> EmptyDict]

\* dict.update
Update(d, e) == [k \in DOMAIN d \cup DOMAIN e |-> IF k \in DOMAIN e THEN e[k] ELSE d[k]]

\* the entry point is called
CallBatch(entry, sc, sce) ==
    /\ batch.pc = "idle"
    /\ batch' = [NoBatch EXCEPT !.entry = entry, !.pc = "run",
                                !.skip_cortex = sc, !.skip_cerebellum = sce,
                                !.stages = Stages(entry, sc, sce)]
    /\ UNCHANGED <<asymVars, calls, fs, io>>

InCatalogue ==
    /\ batch.pc = "run"
    /\ batch.stages # <<>>
    /\ batch.sidx <= Len(Catalogue(batch.stages[1]))

item == Catalogue(batch.stages[1])[batch.sidx]

\* the comprehension calls create_aseg_surface / create_cereb_surface for
\* the next item of the catalogue
StartStructure ==
    /\ InCatalogue
    /\ batch.stages[1] \in {"aseg", "cereb"}
    /\ batch.current = 0
    /\ calls' = Append(calls, NewCall(batch.stages[1], item[2], Len(calls)))
    /\ batch' = [batch EXCEPT !.current = Len(calls) + 1]
    /\ UNCHANGED <<asymVars, fs, io>>

\* the call has returned its path: the comprehension stores it
Collect ==
    /\ InCatalogue
    /\ batch.current # 0
    /\ calls[batch.current].pc = "done"
    /\ batch' = [batch EXCEPT !.partial = Put(@, item[1], calls[batch.current].ret),
                              !.sidx = @ + 1, !.current = 0]
    /\ UNCHANGED <<asymVars, calls, fs, io>>

\* a batch that leaves the structure out and goes on: what the code does
\* not do
SkipFailed ==
    /\ InCatalogue
    /\ batch.current # 0
    /\ calls[batch.current].pc = "failed"
    /\ batch' = [batch EXCEPT !.sidx = @ + 1, !.current = 0]
    /\ UNCHANGED <<asymVars, calls, fs, io>>

\* the call has raised: the error leaves the comprehension and the entry point
Propagate ==
    /\ InCatalogue
    /\ batch.current # 0
    /\ calls[batch.current].pc = "failed"
    /\ batch' = [batch EXCEPT !.pc = "raised"]
    /\ UNCHANGED <<asymVars, calls, fs, io>>

\* surf_to_vtk(subject_dir / "surf" / name, destination / "surfaces" / name.vtk)
SurfToVtk(read_ok) ==
    /\ InCatalogue
    /\ batch.stages[1] = "cortical"
    /\ LET source == SubjectDir("surf/" \o item[2])
           target == Destination("surfaces/" \o item[2] \o ".vtk")
       IN  /\ io' = io \cup {ReadRecord(0, "surf_to_vtk", <<"input", source>>)}
                       \cup (IF read_ok
                             THEN {WriteRecord(0, "surf_to_vtk", <<"final", target>>)}
                             ELSE {})
           /\ fs' = IF read_ok THEN WriteFile(target, 0, "surf_to_vtk") ELSE fs
           /\ batch' = IF read_ok
                       THEN [batch EXCEPT !.partial = Put(@, item[1], target),
                                          !.sidx = @ + 1]
                       ELSE [batch EXCEPT !.pc = "raised"]
    /\ UNCHANGED <<asymVars, calls>>

\* the comprehension is through its catalogue: create_surfaces merges it
EndCatalogue ==
    /\ batch.pc = "run"
    /\ batch.stages # <<>>
    /\ batch.current = 0
    /\ batch.sidx > Len(Catalogue(batch.stages[1]))
    /\ batch' = [batch EXCEPT !.surfaces = Update(@, batch.partial),
                              !.partial = EmptyDict,
                              !.stages = Tail(@), !.sidx = 1]
    /\ UNCHANGED <<asymVars, calls, fs, io>>

\* return surfaces
ReturnSurfaces ==
    /\ batch.pc = "run"
    /\ batch.stages = <<>>
    /\ batch' = [batch EXCEPT !.ret = batch.surfaces, !.pc = "returned"]
    /\ UNCHANGED <<asymVars, calls, fs, io>>

InputFile == [writer |-> 0, tool |-> "input"]

SubjectFiles ==
    {SubjectDir("mri/aseg.mgz"), SubjectDir("mri/cerebellum.CerebNet.nii.gz")}
        \cup {SubjectDir("surf/" \o cortical_labels[i][2]) : i \in 1..Len(cortical_labels)}

InitFiles(with_norm) ==
    [p \in SubjectFiles \cup (IF with_norm THEN {norm_path} ELSE {}) |-> InputFile]

NoSurfaces ==
    /\ calls = <<>>
    /\ fs = InitFiles(TRUE)
    /\ io = {}
    /\ batch = NoBatch

(***************************************************************************)
(* The spectra a caller passes.                                            *)
(***************************************************************************)
Baseline(n) ==
    [i \in 1..MaxLen |-> IF i <= 2 THEN "0.0"
                         ELSE IF n \in LeftNames THEN "1.0" ELSE "2.0"]

HeadValues == {"0.0", "nan"}
TailValues == {"1.0", "nan", "inf", "-inf"}

\* the spectra of n entries: the first two alike, finite or NaN, the others
\* any of the tail values
SpectraOfLen(n) ==
    {s \in [1..n -> Values] :
        \E h \in HeadValues :
            \A i \in 1..n : IF i <= 2 THEN s[i] = h ELSE s[i] \in TailValues}

Spectra == UNION {SpectraOfLen(n) : n \in 0..MaxLen}

Complete == [n \in PairNames |-> Baseline(n)]
WithSpectrum(n, s) == [Complete EXCEPT ![n] = s]
Without(n) == [m \in PairNames \ {n} |-> Baseline(m)]

Inputs ==
    {Complete} \cup {WithSpectrum(n, s) : n \in PairNames, s \in Spectra}
               \cup {Without(n) : n \in PairNames}

InitAsymmetry ==
    /\ eigenvalues \in Inputs
    /\ distance = "euc"
    /\ skip_cortex = FALSE
    /\ skip_cerebellum = FALSE
    /\ structures = <<>>
    /\ idx = 1
    /\ distances = EmptyDict
    /\ invoked = <<>>
    /\ pc = "idle"
    /\ result = None
    /\ prev = None
    /\ NoSurfaces

NextAsymmetry ==
    \/ \E d \in Metrics, sc \in BOOLEAN, sce \in BOOLEAN : Call(d, sc, sce)
    \/ LookupFails
    \/ RecordNaN
    \/ ComputeDistance
    \/ Return

SpecAsymmetry == InitAsymmetry /\ [][NextAsymmetry]_vars

(***************************************************************************)
(* A caller that calls compute_asymmetry repeatedly.                       *)
(***************************************************************************)
RepeatedName == "Left-Hippocampus"

RepeatedSpectra == {s \in Spectra : \A i \in 1..Len(s) : i <= 2 => s[i] = "0.0"}

RepeatedInputs ==
    {Complete, Without(RepeatedName)}
        \cup {WithSpectrum(RepeatedName, s) : s \in RepeatedSpectra}

InitRepeated ==
    /\ eigenvalues \in RepeatedInputs
    /\ distance = "euc"
    /\ skip_cortex = FALSE
    /\ skip_cerebellum = FALSE
    /\ structures = <<>>
    /\ idx = 1
    /\ distances = EmptyDict
    /\ invoked = <<>>
    /\ pc = "idle"
    /\ result = None
    /\ prev = None
    /\ NoSurfaces

NextRepeated ==
    \/ \E d \in Metrics, sc \in BOOLEAN, sce \in BOOLEAN : FirstCall(d, sc, sce)
    \/ \E d \in Metrics, sc \in BOOLEAN, sce \in BOOLEAN :
          \E ev \in {eigenvalues} \cup {Reheaded(eigenvalues, v) : v \in FiniteValues} :
             CallAgain(d, sc, sce, ev)
    \/ LookupFails
    \/ RecordNaN
    \/ ComputeDistance
    \/ Return

SpecRepeated == InitRepeated /\ [][NextRepeated]_vars

(***************************************************************************)
(* One run of an entry point of surfaces.py, its calls one after another.  *)
(***************************************************************************)
NoAsymmetry ==
    /\ eigenvalues = Complete
    /\ distance = "euc"
    /\ skip_cortex = FALSE
    /\ skip_cerebellum = FALSE
    /\ structures = <<>>
    /\ idx = 1
    /\ distances = EmptyDict
    /\ invoked = <<>>
    /\ pc = "idle"
    /\ result = None
    /\ prev = None

InitSurfaces ==
    /\ NoAsymmetry
    /\ calls = <<>>
    /\ \E with_norm \in BOOLEAN : fs = InitFiles(with_norm)
    /\ io = {}
    /\ batch = NoBatch

NextSurfaces ==
    \/ \E entry \in Entries, sc \in BOOLEAN, sce \in BOOLEAN :
          /\ entry # "create_surfaces" => (~sc /\ ~sce)
          /\ CallBatch(entry, sc, sce)
    \/ StartStructure
    \/ \E i \in 1..Len(calls), exit_ok \in BOOLEAN : Binarize(i, exit_ok)
    \/ \E i \in 1..Len(calls), exit_ok \in BOOLEAN : Pretess(i, exit_ok)
    \/ \E i \in 1..Len(calls), exit_ok \in BOOLEAN : MarchingCubes(i, exit_ok)
    \/ \E i \in 1..Len(calls), exit_ok \in BOOLEAN : Convert(i, exit_ok)
    \/ Collect
    \/ Propagate
    \/ \E read_ok \in BOOLEAN : SurfToVtk(read_ok)
    \/ EndCatalogue
    \/ ReturnSurfaces

SpecSurfaces == InitSurfaces /\ [][NextSurfaces]_vars

(***************************************************************************)
(* Calls of create_aseg_surface / create_cereb_surface that run at the     *)
(* same time on one destination, their commands interleaved.               *)
(***************************************************************************)
MaxCalls == 2

ConcurrentInputs ==
    { <<"aseg", <<"16">> >>,
      <<"aseg", <<"7", "8", "16", "46", "47">> >>,
      <<"cereb", <<"601">> >> }

\* a caller starts one more call while the others run
Begin(kind, indices) ==
    /\ Len(calls) < MaxCalls
    /\ calls' = Append(calls, NewCall(kind, indices, Len(calls)))
    /\ UNCHANGED <<asymVars, fs, io, batch>>

NextConcurrent ==
    \/ \E inp \in ConcurrentInputs : Begin(inp[1], inp[2])
    \/ \E i \in 1..Len(calls), exit_ok \in BOOLEAN : Binarize(i, exit_ok)
    \/ \E i \in 1..Len(calls), exit_ok \in BOOLEAN : Pretess(i, exit_ok)
    \/ \E i \in 1..Len(calls), exit_ok \in BOOLEAN : MarchingCubes(i, exit_ok)
    \/ \E i \in 1..Len(calls), exit_ok \in BOOLEAN : Convert(i, exit_ok)

SpecConcurrent == InitSurfaces /\ [][NextConcurrent]_vars


(***************************************************************************)
(* Properties of compute_asymmetry.                                        *)
(***************************************************************************)
\* the entries of s from index 2 on, counting from 0
FromIndex2(s) == IF Len(s) <= 2 THEN <<>> ELSE [i \in 1..(Len(s) - 2) |-> s[i + 2]]

ContainsNaN(s) == \E i \in 1..Len(s) : s[i] = "nan"

IsFinite(x) == x \notin {"nan", "inf", "-inf"}
AnyNonFinite(s) == \E i \in 1..Len(s) : ~IsFinite(s[i])

PairKey(p) == p[1] \o "_" \o p[2]
KeysOf(catalogue) == {PairKey(p) : p \in Range(catalogue)}

ExpectedKeys(sc, sce) ==
    KeysOf(structures_left_right)
        \cup (IF sc THEN {} ELSE KeysOf(cortex_2d_left_right))
        \cup (IF sce THEN {} ELSE KeysOf(structures_left_right_cerebellum))

ExpectedCount(sc, sce) ==
    12 + (IF sc THEN 0 ELSE 2) + (IF sce THEN 0 ELSE 10)

\* the positions of `structures` the loop has been through
Processed == IF pc = "idle" THEN {} ELSE 1..(idx - 1)

\* C1: with spectra holding every catalogued name, every call of a sequence
\* of calls returns, and returns exactly the keys "{left}_{right}" of the
\* subcortical pairs, of the cortical pairs iff not skip_cortex and of the
\* cerebellar pairs iff not skip_cerebellum: 12 + 2 + 10 entries at most,
\* whatever groups the calls before it selected.
C1_KeySet ==
    PairNames \subseteq DOMAIN eigenvalues =>
        /\ pc # "raised"
        /\ pc = "returned" =>
              /\ DOMAIN result.value = ExpectedKeys(skip_cortex, skip_cerebellum)
              /\ Cardinality(DOMAIN result.value)
                    = ExpectedCount(skip_cortex, skip_cerebellum)
              /\ "Left-Hippocampus_Right-Hippocampus" \in DOMAIN result.value

\* a call that skips both groups has returned after a call that selected both
C1_Witness ==
    /\ PairNames \subseteq DOMAIN eigenvalues
    /\ pc = "returned"
    /\ skip_cortex /\ skip_cerebellum
    /\ Cardinality(DOMAIN result.value) = 12
    /\ prev.kind = "call"
    /\ prev.pc = "returned"
    /\ ~prev.skip_cortex /\ ~prev.skip_cerebellum
    /\ Cardinality(DOMAIN prev.result.value) = 24

AllNaN(s) == Len(s) > 0 /\ \A i \in 1..Len(s) : s[i] = "nan"
AllFinite(s) == \A i \in 1..Len(s) : IsFinite(s[i])

\* structure n is the one structure whose spectrum is all NaN
OnlyAllNaN(n) ==
    /\ n \in DOMAIN eigenvalues
    /\ AllNaN(eigenvalues[n])
    /\ \A m \in DOMAIN eigenvalues \ {n} : AllFinite(eigenvalues[m])

\* the returned mapping isolates structure n: NaN for its pairs, the distance
\* of the two trimmed spectra for every other selected pair
Isolated(n) ==
    /\ pc # "raised"
    /\ \A i \in Processed :
          LET p == structures[i]
          IN  /\ PairKey(p) \in DOMAIN distances
              /\ IF n \in {p[1], p[2]}
                 THEN distances[PairKey(p)] = NaNValue
                 ELSE distances[PairKey(p)] =
                        DistanceValue(FromIndex2(eigenvalues[p[1]]),
                                      FromIndex2(eigenvalues[p[2]]), distance)
    /\ pc = "returned" =>
          /\ result.value = distances
          /\ DOMAIN result.value = ExpectedKeys(skip_cortex, skip_cerebellum)

\* C2 as stated: one all-NaN spectrum, whatever its length, gives NaN for
\* its pairs and distances for the others.
C2_AsStated ==
    \A n \in PairNames :
        (PairNames \subseteq DOMAIN eigenvalues /\ OnlyAllNaN(n)) => Isolated(n)

\* C2 amended: the same, for an all-NaN spectrum of at least three entries,
\* so that a NaN is left once the first two entries are dropped.
C2_Isolation ==
    \A n \in PairNames :
        (/\ PairNames \subseteq DOMAIN eigenvalues
         /\ OnlyAllNaN(n)
         /\ Len(eigenvalues[n]) >= 3) => Isolated(n)

\* a call has returned with NaN for the pair of the all-NaN right thalamus,
\* a pair in the middle of the list, and distances for the pairs after it
C2_Witness ==
    /\ pc = "returned"
    /\ OnlyAllNaN("Right-Thalamus-Proper")
    /\ Len(eigenvalues["Right-Thalamus-Proper"]) >= 3
    /\ result.value["Left-Thalamus-Proper_Right-Thalamus-Proper"] = NaNValue
    /\ result.value["Left-VentralDC_Right-VentralDC"].kind = "distance"
    /\ Len(invoked) = 23

InvokedKeys == {invoked[j].key : j \in 1..Len(invoked)}

\* C3 as stated: a pair with any non-finite value (NaN, +inf, -inf) in a
\* trimmed spectrum gets NaN and no call of the distance function.
C3_AsStated ==
    \A i \in Processed :
        LET p == structures[i]
            l == FromIndex2(eigenvalues[p[1]])
            r == FromIndex2(eigenvalues[p[2]])
        IN  IF AnyNonFinite(l) \/ AnyNonFinite(r)
            THEN /\ distances[PairKey(p)] = NaNValue
                 /\ PairKey(p) \notin InvokedKeys
            ELSE PairKey(p) \in InvokedKeys

\* C3 amended: a pair with a NaN in a trimmed spectrum gets NaN and no call
\* of the distance function; every other pair, those with +inf or -inf
\* included, gets one call of the distance function on the trimmed spectra.
C3_NaNOnly ==
    \A i \in Processed :
        LET p == structures[i]
            l == FromIndex2(eigenvalues[p[1]])
            r == FromIndex2(eigenvalues[p[2]])
        IN  IF ContainsNaN(l) \/ ContainsNaN(r)
            THEN /\ distances[PairKey(p)] = NaNValue
                 /\ PairKey(p) \notin InvokedKeys
            ELSE /\ distances[PairKey(p)] = DistanceValue(l, r, distance)
                 /\ Cardinality({j \in 1..Len(invoked) :
                        invoked[j] = [left |-> l, right |-> r, dist |-> distance,
                                      key |-> PairKey(p)]}) = 1

\* a call has returned NaN for a pair with a NaN in the trimmed left spectrum
C3_Witness ==
    /\ pc = "returned"
    /\ ContainsNaN(FromIndex2(eigenvalues["Left-Amygdala"]))
    /\ result.value["Left-Amygdala_Right-Amygdala"] = NaNValue
    /\ "Left-Amygdala_Right-Amygdala" \notin InvokedKeys
    /\ "Left-Accumbens-area_Right-Accumbens-area" \in InvokedKeys

\* the positions of `structures` that name a structure without a spectrum
Unknown ==
    {i \in 1..Len(structures) :
        ~({structures[i][1], structures[i][2]} \subseteq DOMAIN eigenvalues)}

\* C9: a call that selects a pair naming a structure without a spectrum
\* never returns a mapping and never records a value for that pair; when it
\* has raised, it is at that pair, with the pairs before it processed.
C9_LookupError ==
    (pc # "idle" /\ Unknown # {}) =>
        /\ pc # "returned"
        /\ result = None
        /\ \A i \in Unknown :
              /\ idx <= i
              /\ PairKey(structures[i]) \notin DOMAIN distances
        /\ pc = "raised" => idx \in Unknown
        /\ \A i \in Processed : PairKey(structures[i]) \in DOMAIN distances

\* a call has raised at the cortical pair that lacks rh-pial-2d, after the
\* thirteen pairs before it
C9_Witness ==
    /\ pc = "raised"
    /\ "rh-pial-2d" \notin DOMAIN eigenvalues
    /\ structures[idx] = <<"lh-pial-2d", "rh-pial-2d">>
    /\ Cardinality(DOMAIN distances) = 13
    /\ result = None

\* the two mappings have the same names and lengths, and differ only in
\* finite values at indices 0 and 1
DifferInFiniteHeads(a, b) ==
    /\ DOMAIN a = DOMAIN b
    /\ \A n \in DOMAIN a :
          /\ Len(a[n]) = Len(b[n])
          /\ \A i \in 1..Len(a[n]) :
                a[n][i] # b[n][i] => (i <= 2 /\ IsFinite(a[n][i]) /\ IsFinite(b[n][i]))

\* C4: two calls with the same metric and flags, on spectra that differ only
\* in finite values at indices 0 and 1, end alike: the same mapping or the
\* same error, and the same calls of the distance function.
C4_HeadsIgnored ==
    (/\ pc \in {"returned", "raised"}
     /\ prev.kind = "call"
     /\ prev.distance = distance
     /\ prev.skip_cortex = skip_cortex
     /\ prev.skip_cerebellum = skip_cerebellum
     /\ DifferInFiniteHeads(prev.eigenvalues, eigenvalues)) =>
        /\ pc = prev.pc
        /\ result = prev.result
        /\ invoked = prev.invoked

\* a second call has returned on spectra whose first two entries differ from
\* the first call's, with a NaN pair and a distance pair in the mapping
C4_Witness ==
    /\ pc = "returned"
    /\ prev.kind = "call"
    /\ prev.distance = distance
    /\ prev.skip_cortex = skip_cortex
    /\ prev.skip_cerebellum = skip_cerebellum
    /\ DifferInFiniteHeads(prev.eigenvalues, eigenvalues)
    /\ prev.eigenvalues["Left-Caudate"][1] # eigenvalues["Left-Caudate"][1]
    /\ prev.eigenvalues["Left-Caudate"][2] # eigenvalues["Left-Caudate"][2]
    /\ result.value["Left-Hippocampus_Right-Hippocampus"] = NaNValue
    /\ result.value["Left-Caudate_Right-Caudate"].kind = "distance"

(***************************************************************************)
(* Properties of surfaces.py.                                              *)
(***************************************************************************)
\* the tools one call issues, in order
ExpectedTools ==
    IF norm_path \in DOMAIN fs
    THEN <<"mri_binarize", "mri_pretess", "mri_mc", "mris_convert">>
    ELSE <<"mri_binarize", "mri_mc", "mris_convert">>

\* the commands of log before position j that ran the tool
Earlier(log, j, tool) == {k \in 1..(j - 1) : log[k].cmd.tool = tool}

\* the arguments of the j-th command of a log follow from the commands
\* before it: the mask of mri_binarize is refined in place and extracted at
\* label value 1, and the surface of mri_mc is converted
ArgumentsChained(log, j) ==
    LET cmd == log[j].cmd
    IN  /\ cmd.tool = "mri_pretess" =>
              /\ cmd.args[2] = "1"
              /\ cmd.args[3] = "subject_dir/mri/norm.mgz"
              /\ cmd.args[4] = cmd.args[1]
              /\ \E k \in Earlier(log, j, "mri_binarize") : log[k].cmd.args[3] = cmd.args[1]
        /\ cmd.tool = "mri_mc" =>
              /\ cmd.args[2] = "1"
              /\ \E k \in Earlier(log, j, "mri_binarize") : log[k].cmd.args[3] = cmd.args[1]
        /\ cmd.tool = "mris_convert" =>
              \E k \in Earlier(log, j, "mri_mc") : log[k].cmd.args[3] = cmd.args[1]

\* C5: the commands of one call of create_aseg_surface / create_cereb_surface
\* are issued in the order binarize, refinement (iff mri/norm.mgz exists, in
\* place), marching cubes at label value 1, conversion; a command is issued
\* only after the one before it has succeeded; after a failure no command is
\* issued and no path is returned; a path is returned only after all of them.
C5_CommandOrder ==
    \A i \in 1..Len(calls) :
        LET c == calls[i]
            n == Len(c.log)
        IN  /\ n <= Len(ExpectedTools)
            /\ \A j \in 1..n :
                  /\ c.log[j].cmd.tool = ExpectedTools[j]
                  /\ j < n => c.log[j].ok
                  /\ ArgumentsChained(c.log, j)
            /\ c.pc = "failed" <=> (n > 0 /\ ~c.log[n].ok)
            /\ c.pc = "failed" => c.ret = ""
            /\ c.pc = "done" <=> (n = Len(ExpectedTools) /\ c.log[n].ok)
            /\ c.pc = "done" => c.ret = c.log[n].cmd.args[2]
            /\ c.ret # "" => c.pc = "done"

\* with norm.mgz, one call has issued its four commands and returned its path
\* and a later call has failed in its refinement
C5_Witness ==
    /\ norm_path \in DOMAIN fs
    /\ Len(calls) >= 2
    /\ calls[1].pc = "done"
    /\ Len(calls[1].log) = 4
    /\ calls[1].ret = "destination/surfaces/aseg.final.251_252_253_254_255.vtk"
    /\ calls[2].pc = "failed"
    /\ Len(calls[2].log) = 2
    /\ calls[2].ret = ""

ConvertedSurfaces == {p \in DOMAIN fs : fs[p].tool = "surf_to_vtk"}

\* C6: once a command of one structure has failed, that structure's call is
\* the last call the batch makes, no cortical surface is converted, and the
\* batch returns no mapping; a batch that has raised has returned nothing.
C6_AllOrNothing ==
    /\ \A i \in 1..Len(calls) :
          calls[i].pc = "failed" =>
              /\ i = Len(calls)
              /\ batch.pc \in {"run", "raised"}
              /\ batch.current = i
              /\ batch.ret = EmptyDict
              /\ ConvertedSurfaces = {}
    /\ batch.pc = "raised" => batch.ret = EmptyDict
    /\ batch.pc = "returned" => \A i \in 1..Len(calls) : calls[i].pc = "done"

\* create_surfaces has raised after the failure of the first cerebellar
\* structure, with the thirty volumetric structures extracted
C6_Witness ==
    /\ batch.pc = "raised"
    /\ batch.entry = "create_surfaces"
    /\ Len(calls) = 31
    /\ calls[31].pc = "failed"
    /\ calls[31].kind = "cereb"
    /\ Cardinality(DOMAIN batch.surfaces) = 30
    /\ batch.ret = EmptyDict

NamesOf(catalogue) == {catalogue[i][1] : i \in 1..Len(catalogue)}

\* C7: whatever the flags, every structure of every pair that
\* compute_asymmetry selects with them is a key of the mapping that
\* create_surfaces returns with them; the keys are the volumetric names, the
\* cerebellar names iff not skip_cerebellum, the cortical names iff not
\* skip_cortex.
C7_Catalogues ==
    (batch.pc = "returned" /\ batch.entry = "create_surfaces") =>
        /\ \A p \in Range(SelectStructures(<<>>, batch.skip_cortex, batch.skip_cerebellum)) :
              {p[1], p[2]} \subseteq DOMAIN batch.ret
        /\ DOMAIN batch.ret =
              NamesOf(aseg_labels)
                \cup (IF batch.skip_cerebellum THEN {} ELSE NamesOf(cereb_labels))
                \cup (IF batch.skip_cortex THEN {} ELSE NamesOf(cortical_labels))

\* create_surfaces has returned without the cortex and with the cerebellum
C7_Witness ==
    /\ batch.pc = "returned"
    /\ batch.entry = "create_surfaces"
    /\ batch.skip_cortex
    /\ ~batch.skip_cerebellum
    /\ "Cbm_Right_X" \in DOMAIN batch.ret
    /\ "lh-pial-2d" \notin DOMAIN batch.ret

\* the paths stored so far by the running batch
Stored == Update(batch.surfaces, batch.partial)

\* C8: in one run, no two structures are given the same final path, no final
\* mesh is written over one that another call wrote, and the names of the
\* three catalogues are disjoint.
C8_UniquePaths ==
    /\ \A a \in DOMAIN Stored, b \in DOMAIN Stored : a # b => Stored[a] # Stored[b]
    /\ \A e \in io : (e.op = "write" /\ e.role = "final" /\ e.call # 0) => e.owner = e.call
    /\ batch.pc = "returned" =>
          \A a \in DOMAIN batch.ret, b \in DOMAIN batch.ret :
              a # b => batch.ret[a] # batch.ret[b]
    /\ NamesOf(aseg_labels) \cap NamesOf(cereb_labels) = {}
    /\ NamesOf(aseg_labels) \cap NamesOf(cortical_labels) = {}
    /\ NamesOf(cereb_labels) \cap NamesOf(cortical_labels) = {}
    /\ (batch.pc = "returned" /\ batch.entry = "create_surfaces"
            /\ ~batch.skip_cortex /\ ~batch.skip_cerebellum) =>
          Cardinality({batch.ret[a] : a \in DOMAIN batch.ret}) = 60

\* create_surfaces has returned the sixty paths of the three catalogues
C8_Witness ==
    /\ batch.pc = "returned"
    /\ Cardinality(DOMAIN batch.ret) = 60
    /\ batch.ret["Cbm_Vermis"] = "destination/surfaces/cereb.final.631_630_627_624_606.vtk"
    /\ batch.ret["Cbm_Vermis_VIII"] = "destination/surfaces/cereb.final.631.vtk"
    /\ batch.ret["Brain-Stem"] = "destination/surfaces/aseg.final.16.vtk"
    /\ batch.ret["rh-pial-2d"] = "destination/surfaces/rh.pial.vtk"

\* C10: however the commands of concurrent calls interleave, a call reads
\* and writes no temporary mask or raw surface of another call: the mask
\* that its refinement and its marching cubes read is the one its own
\* binarize (or its own refinement) wrote, and the raw surface its conversion
\* reads is the one its own marching cubes wrote.
C10_TempIsolation ==
    \A e \in io :
        e.role \in {"mask", "surface"} =>
            /\ e.owner = e.call
            /\ (e.op = "read" /\ e.tool = "mri_pretess") => e.made_by = "mri_binarize"
            /\ (e.op = "read" /\ e.tool = "mri_mc") =>
                  e.made_by = (IF norm_path \in DOMAIN fs THEN "mri_pretess"
                               ELSE "mri_binarize")
            /\ (e.op = "read" /\ e.tool = "mris_convert") => e.made_by = "mri_mc"

\* two calls with the same label codes overlap: the second has binarized
\* while the first is between its marching cubes and its conversion
C10_Witness ==
    /\ Len(calls) >= 2
    /\ calls[1].kind = calls[2].kind
    /\ calls[1].indices = calls[2].indices
    /\ calls[1].pc = "convert"
    /\ calls[2].pc = "pretess"
    /\ calls[1].temp_name # calls[2].temp_name
    /\ \E e \in io : e.call = 2 /\ e.role = "mask" /\ e.op = "write"

====
